---------------------------- MODULE Spec2Model ----------------------------
(***************************************************************************)
(* Model of the Gradio front end (src/main.py) and of the agent's streamed *)
(* turn (src/mcp_agent.py).                                                *)
(*                                                                         *)
(* Python strings are sequences of tokens: a token is one character of a  *)
(* message content (" " is whitespace, "U" a lone surrogate code point,    *)
(* "?" the replacement the utf-8 codec writes for it) or one literal piece *)
(* of a format string.  None and "" are both the empty sequence wherever   *)
(* the code only tests truthiness.                                         *)
(*                                                                         *)
(* The event loop is single threaded: an action is the code a coroutine    *)
(* runs between two awaits.                                                *)
(***************************************************************************)
EXTENDS Integers, Sequences, FiniteSets, TLC

\* ------------------------------------------------------------- bounds
\* chunks the stream of one turn may emit (SpecStream, SpecClock)
MaxChunks == 2
\* chunks the stream of one turn may emit when turns run concurrently (Spec)
MaxAppChunks == 1
\* messages one streamed chunk may carry, over all its operations and steps
MaxMsgs == 2
\* concurrent invocations of chat_interface
MaxCalls == 2
\* page loads that may create an initialization task
MaxLoads == 2
\* clock ticks observed while one turn is suspended
MaxTicks == 3
\* seconds per clock tick
TickSeconds == 150
\* tool servers mcp_server.json may name
MaxServers == 2
\* values uuid.uuid4() may return
MaxUuids == 2
\* instances of MCPAgent one process may construct
MaxAgents == 2
\* turns one instance of MCPAgent may run
MaxTurns == 2
\* calls of the tool retrieve that may be in progress at once
MaxRetrieves == 3
\* calls of get_api_clients made for one context
MaxKubeCalls == 3

\* ---------------------------------------------------- program constants
TIMEOUT_SECONDS == 300

\* -------------------------------------------------------------- strings
Whitespace == {" ", "\n"}

RECURSIVE LStrip(_)
LStrip(s) ==
    IF s # <<>> /\ Head(s) \in Whitespace THEN LStrip(Tail(s)) ELSE s

RECURSIVE RStrip(_)
RStrip(s) ==
    IF s # <<>> /\ s[Len(s)] \in Whitespace
    THEN RStrip(SubSeq(s, 1, Len(s) - 1))
    ELSE s

\* str.strip()
Strip(s) == RStrip(LStrip(s))

\* "".join(parts)
RECURSIVE Join(_)
Join(parts) ==
    IF parts = <<>> THEN <<>> ELSE Head(parts) \o Join(Tail(parts))

\* sep.join(parts)
RECURSIVE JoinSep(_, _)
JoinSep(sep, parts) ==
    IF parts = <<>> THEN <<>>
    ELSE IF Len(parts) = 1 THEN Head(parts)
    ELSE Head(parts) \o sep \o JoinSep(sep, Tail(parts))

\* content.encode("utf-8", "replace").decode("utf-8"): a lone surrogate
\* cannot be encoded and is replaced by "?"
Utf8Replace(s) == [i \in 1..Len(s) |-> IF s[i] = "U" THEN "?" ELSE s[i]]

\* ------------------------------------------------------------- messages
AIMessage(c)      == [type |-> "ai",    name |-> "",  content |-> c]
ToolMessage(n, c) == [type |-> "tool",  name |-> n,   content |-> c]
HumanMessage      == [type |-> "human", name |-> "",  content |-> <<"q">>]

\* f"Tool Used: {message.name}\nResult: {message.content}"
ToolInfo(message) ==
    <<"Tool Used: ", message.name, "\nResult: ">> \o message.content

\* the loop over the messages of one step (callback_func, the for statement)
RECURSIVE FoldMessages(_, _)
FoldMessages(messages, acc) ==
    IF messages = <<>> THEN acc
    ELSE LET message == Head(messages)
             next ==
                 IF message.type = "ai" /\ message.content # <<>>
                 THEN [acc EXCEPT !.text = Append(@, Utf8Replace(message.content))]
                 ELSE IF message.type = "tool"
                 THEN [acc EXCEPT !.tools = Append(@, ToolInfo(message))]
                 ELSE acc
         IN FoldMessages(Tail(messages), next)

\* next((k for k in data if isinstance(data.get(k), dict) and
\*       "messages" in data[k]), None): the index of the first such entry, or 0
AgentStepKey(data) ==
    LET hits == {i \in 1..Len(data.items) :
                    data.items[i].isdict /\ data.items[i].has_messages}
    IN IF hits = {} THEN 0 ELSE CHOOSE i \in hits : \A j \in hits : i <= j

\* callback_func(data) on the accumulators acc = [text, tools]
callback_func(data, acc) ==
    IF ~data.isdict THEN acc
    ELSE LET k == AgentStepKey(data)
         IN IF k = 0 THEN acc
            ELSE FoldMessages(data.items[k].messages, acc)


\* --------------------------------------------- what the stream may emit
\* message contents: leading and trailing whitespace, and a lone surrogate
Contents == {<<" ", "a">>, <<"U", " ">>}
ToolNames == {"get_time", "get_weather"}

\* an AIMessage with empty content is a tool-call request
Messages ==
    {AIMessage(c) : c \in Contents \cup {<<>>}}
      \cup {ToolMessage("get_time", <<"r">>),
            ToolMessage("get_weather", <<"Error: ", "x">>),
            HumanMessage}

RECURSIVE SeqsUpTo(_, _)
SeqsUpTo(S, n) ==
    IF n = 0 THEN {<<>>}
    ELSE LET shorter == SeqsUpTo(S, n - 1)
         IN shorter \cup {Append(q, x) : q \in {r \in shorter : Len(r) = n - 1}, x \in S}

NonEmptySeqs(S, n) == SeqsUpTo(S, n) \ {<<>>}

\* one entry of the dict a stream operation carries
StepEntry(key, messages) ==
    [key |-> key, isdict |-> TRUE, has_messages |-> TRUE, messages |-> messages]
PlainEntry(key, isdict) ==
    [key |-> key, isdict |-> isdict, has_messages |-> FALSE, messages |-> <<>>]

DictValue(items) == [isdict |-> TRUE, items |-> items]
NonDictValue     == [isdict |-> FALSE, items |-> <<>>]

\* one operation of a RunLogPatch: {"op": .., "path": .., "value": ..};
\* a JSON-patch "remove" operation has no "value"
ValueOp(value) == [has_value |-> TRUE, value |-> value]
NoValueOp      == [has_value |-> FALSE, value |-> NonDictValue]

\* chunks of one operation carrying one step
OneStepChunks ==
    {<<ValueOp(DictValue(<<StepEntry("agent", ms)>>))>> : ms \in SeqsUpTo(Messages, MaxMsgs)}
\* chunks whose one operation carries two steps
TwoStepChunks ==
    {<<ValueOp(DictValue(<<StepEntry("agent", m1), StepEntry("tools", m2)>>))>> :
        m1 \in NonEmptySeqs(Messages, MaxMsgs - 1),
        m2 \in NonEmptySeqs(Messages, MaxMsgs - 1)}
\* chunks of two operations, each carrying one step
TwoOpChunks ==
    {<<ValueOp(DictValue(<<StepEntry("agent", m1)>>)),
       ValueOp(DictValue(<<StepEntry("tools", m2)>>))>> :
        m1 \in NonEmptySeqs(Messages, MaxMsgs - 1),
        m2 \in NonEmptySeqs(Messages, MaxMsgs - 1)}
\* chunks whose step is not the first entry or not the first operation
LateStepChunks ==
    {<<ValueOp(DictValue(<<PlainEntry("other", d), StepEntry("agent", ms)>>))>> :
        d \in BOOLEAN, ms \in NonEmptySeqs(Messages, MaxMsgs - 1)}
      \cup {<<ValueOp(NonDictValue), ValueOp(DictValue(<<StepEntry("agent", ms)>>))>> :
              ms \in NonEmptySeqs(Messages, MaxMsgs - 1)}
\* chunks that carry no step at all
NoStepChunks ==
    {<<NoValueOp>>,
     <<ValueOp(NonDictValue)>>,
     <<ValueOp(DictValue(<<>>))>>,
     <<ValueOp(DictValue(<<PlainEntry("other", TRUE)>>))>>,
     <<ValueOp(DictValue(<<PlainEntry("other", FALSE)>>))>>}

Chunks ==
    OneStepChunks \cup TwoStepChunks \cup TwoOpChunks \cup LateStepChunks \cup NoStepChunks

\* the few chunks the application-level specification streams
AppChunks ==
    {<<ValueOp(DictValue(<<StepEntry("agent", <<AIMessage(<<" ", "a">>)>>)>>))>>,
     <<ValueOp(DictValue(<<StepEntry("tools", <<ToolMessage("get_time", <<"r">>)>>)>>))>>,
     <<NoValueOp>>}

\* str(e) of what the stream may raise
StreamErrors == {<<>>, <<"boom">>}

\* every message a chunk carries, in emission order
RECURSIVE EntryMessages(_)
EntryMessages(items) ==
    IF items = <<>> THEN <<>>
    ELSE (IF Head(items).isdict /\ Head(items).has_messages
          THEN Head(items).messages ELSE <<>>) \o EntryMessages(Tail(items))

RECURSIVE ChunkMessages(_)
ChunkMessages(ops) ==
    IF ops = <<>> THEN <<>>
    ELSE (IF Head(ops).has_value /\ Head(ops).value.isdict
          THEN EntryMessages(Head(ops).value.items) ELSE <<>>) \o ChunkMessages(Tail(ops))

RECURSIVE StreamMessages(_)
StreamMessages(chunks) ==
    IF chunks = <<>> THEN <<>>
    ELSE ChunkMessages(Head(chunks)) \o StreamMessages(Tail(chunks))

IsTextDelta(m)  == m.type = "ai" /\ m.content # <<>>
IsToolResult(m) == m.type = "tool"

\* ---------------------------------------------------------------- state
VARIABLES
    mcp_client,                    \* main.py global: the MCPClient, or none
    agent,                         \* main.py global: "None" or "MCPAgent"
    initialization_error_message,  \* main.py global: <<>> is None
    is_initializing,               \* main.py global
    initialization_complete,       \* main.py global
    available_tool_names,          \* main.py global
    tasks,                         \* the initialize_agent_task coroutines created by page loads
    calls,                         \* the invocations of chat_interface
    mcp_server_json,               \* the file mcp_server.json and the servers it names
    QUERY_THREAD_ID,               \* mcp_agent.py class attribute of MCPAgent
    agents,                        \* the MCPAgent instances and the turns each has run
    process,                       \* the interpreter running main.py
    retriever_instance,            \* mcp_server_rag.py global (0 is None)
    retriever_initialization_error, \* mcp_server_rag.py global (<<>> is None)
    init_lock,                     \* mcp_server_rag.py global: the call holding the lock, or 0
    retrieves,                     \* the calls of the tool retrieve
    builds,                        \* the runs of _build_and_initialize_retriever so far
    client_cache,                  \* core/kubeconfig.py global _client_cache
    kube_loads,                    \* the calls of config.load_kube_config so far
    injection                      \* the last call through use_current_context

\* the state of the tool servers (mcp_tools/, core/), which run in
\* processes of their own
tool_servers == <<retriever_instance, retriever_initialization_error, init_lock,
                  retrieves, builds, client_cache, kube_loads, injection>>

vars == <<mcp_client, agent, initialization_error_message, is_initializing,
          initialization_complete, available_tool_names, tasks, calls,
          mcp_server_json, QUERY_THREAD_ID, agents, process, tool_servers>>

\* what no action of the application writes: the configuration file, the
\* class attribute, the instances of MCPAgent other than main.py's, the
\* state of the interpreter and the tool servers
world == <<mcp_server_json, QUERY_THREAD_ID, agents, process, tool_servers>>

globals == <<mcp_client, agent, initialization_error_message, is_initializing,
             initialization_complete, available_tool_names>>

Tasks    == 1..MaxLoads
CallIds  == 1..MaxCalls
AgentIds == 1..MaxAgents
UUIDs    == 1..MaxUuids

\* the interpreter: where the main thread is, the exit code once it has
\* exited (-1 before), and whether a SIGINT was delivered
Process(pc, exit_code, signalled) ==
    [pc |-> pc, exit_code |-> exit_code, signalled |-> signalled]
Creating == Process("creating", -1, FALSE)
Serving  == Process("serving", -1, FALSE)
Closing  == Process("closing", -1, FALSE)

\* an MCPAgent that has not been constructed; the turns of an instance are
\* the calls of process_query on it, each with the thread_id of its config
NoAgent == [created |-> FALSE, turns |-> <<>>]

\* an MCPClient: self.tools, and self.client ("None" until
\* MultiServerMCPClient(server_list) is constructed)
NoClient              == [is_none |-> TRUE,  tools |-> <<>>, client |-> "None"]
MCPClient(ts, client) == [is_none |-> FALSE, tools |-> ts,   client |-> client]

\* the dict process_query returns; keys = {} while there is none
NoResponse == [keys |-> {}, output |-> <<>>, tool_calls |-> <<>>, error |-> <<>>]
\* the tuple chat_interface returns
Ret(answer, log, used) == [answer |-> answer, log |-> log, tools |-> used]
NoRet == Ret(<<>>, <<>>, <<>>)

\* a chat_interface coroutine that has not been called
IdleCall ==
    [pc |-> "idle", user_input |-> <<>>, show_tool_activity |-> FALSE,
     arrived |-> "none", raised |-> FALSE, after_failure |-> FALSE,
     accumulated_text |-> <<>>, accumulated_tool_info |-> <<>>,
     chunks |-> <<>>, elapsed |-> 0,
     response |-> NoResponse, ret |-> NoRet]

\* -------------------------------------------------- process_query (agent)
\* the accumulators of a call, as callback_func's closure holds them
Acc(c) == [text |-> c.accumulated_text, tools |-> c.accumulated_tool_info]

\* src/mcp_agent.py:75-78, the dict returned when the stream is exhausted
OutputResponse(c) ==
    [keys |-> {"output", "tool_calls"},
     output |-> Strip(Join(c.accumulated_text)),
     tool_calls |-> IF c.accumulated_tool_info # <<>>
                    THEN JoinSep(<<"\n">>, c.accumulated_tool_info) ELSE <<>>,
     error |-> <<>>]

\* src/mcp_agent.py:71-73, the dict returned when the stream raises
ErrorResponse(e) ==
    [keys |-> {"error"}, output |-> <<>>, tool_calls |-> <<>>, error |-> e]

\* response.get(key, default)
Get(response, key, default) ==
    IF key \in response.keys
    THEN (CASE key = "output" -> response.output
            [] key = "tool_calls" -> response.tool_calls
            [] OTHER -> response.error)
    ELSE default

\* re.findall(r"Tool Used:\s*([a-zA-Z0-9_]+)", text): the token that follows
\* each "Tool Used: " token
RECURSIVE FindTools(_)
FindTools(text) ==
    IF Len(text) < 2 THEN <<>>
    ELSE IF Head(text) = "Tool Used: " /\ text[2] \in ToolNames
         THEN <<text[2]>> \o FindTools(Tail(Tail(text)))
         ELSE FindTools(Tail(text))

\* list(dict.fromkeys(found)): first occurrences, in order
RECURSIVE Dedup(_, _)
Dedup(found, seen) ==
    IF found = <<>> THEN <<>>
    ELSE IF Head(found) \in seen THEN Dedup(Tail(found), seen)
    ELSE <<Head(found)>> \o Dedup(Tail(found), seen \cup {Head(found)})

NamesOf(found) == [i \in 1..Len(found) |-> <<found[i]>>]

\* chat_interface building the log whatever the flag
FormatResponse_always_logs(response, show_tool_activity) ==
    LET output0         == Get(response, "output", <<"[Error] No output.">>)
        tool_calls_text == Get(response, "tool_calls", <<>>)
        error_text      == Get(response, "error", <<>>)
        output_text     == IF error_text # <<>>
                           THEN <<"[Agent Error] ">> \o error_text ELSE output0
        found_tools     == FindTools(tool_calls_text)
        last_tool       == IF tool_calls_text # <<>> /\ found_tools # <<>>
                           THEN JoinSep(<<", ">>, NamesOf(Dedup(found_tools, {})))
                           ELSE IF error_text # <<>> THEN <<"Error">> ELSE <<"None">>
        formatted       == IF tool_calls_text # <<>>
                           THEN <<"--- Tool Activity ---\n">> \o Strip(tool_calls_text)
                                  \o <<"\n---------------------">>
                           ELSE <<>>
    IN Ret(output_text, formatted, last_tool)

\* chat_interface without the override of main.py:117-118
FormatResponse_ignores_error(response, show_tool_activity) ==
    LET output0         == Get(response, "output", <<"[Error] No output.">>)
        tool_calls_text == Get(response, "tool_calls", <<>>)
        found_tools     == FindTools(tool_calls_text)
        last_tool       == IF tool_calls_text # <<>> /\ found_tools # <<>>
                           THEN JoinSep(<<", ">>, NamesOf(Dedup(found_tools, {})))
                           ELSE <<"None">>
        formatted       == IF show_tool_activity /\ tool_calls_text # <<>>
                           THEN <<"--- Tool Activity ---\n">> \o Strip(tool_calls_text)
                                  \o <<"\n---------------------">>
                           ELSE <<>>
    IN Ret(output0, formatted, last_tool)

\* src/main.py:113-136, what chat_interface makes of process_query's dict
FormatResponse(response, show_tool_activity) ==
    LET output0         == Get(response, "output", <<"[Error] No output.">>)
        tool_calls_text == Get(response, "tool_calls", <<>>)
        error_text      == Get(response, "error", <<>>)
        output_text     == IF error_text # <<>>
                           THEN <<"[Agent Error] ">> \o error_text ELSE output0
        found_tools     == FindTools(tool_calls_text)
        last_tool       == IF tool_calls_text # <<>> /\ found_tools # <<>>
                           THEN JoinSep(<<", ">>, NamesOf(Dedup(found_tools, {})))
                           ELSE IF error_text # <<>> THEN <<"Error">> ELSE <<"None">>
        formatted       == IF show_tool_activity /\ tool_calls_text # <<>>
                           THEN <<"--- Tool Activity ---\n">> \o Strip(tool_calls_text)
                                  \o <<"\n---------------------">>
                           ELSE <<>>
    IN Ret(output_text, formatted, last_tool)

\* the except clause of process_query also returns what was accumulated
Finish_keeps_partial(c, response) ==
    LET partial == IF "error" \in response.keys
                   THEN [response EXCEPT !.keys = @ \cup {"output", "tool_calls"},
                                         !.output = Strip(Join(c.accumulated_text)),
                                         !.tool_calls = JoinSep(<<"\n">>, c.accumulated_tool_info)]
                   ELSE response
    IN [c EXCEPT !.pc = "done", !.response = partial,
                 !.ret = FormatResponse(partial, c.show_tool_activity)]

\* process_query returns `response` and chat_interface runs to its return
Finish(c, response) ==
    [c EXCEPT !.pc = "done", !.response = response,
              !.ret = FormatResponse(response, c.show_tool_activity)]

\* ------------------------------------------------- chat_interface (main)
WaitMessage       == <<"Agent is still initializing... Please wait.">>
ValidationMessage == <<"Please enter a message.">>
NotReadyMessage(error_msg) ==
    <<"Agent not ready (">> \o error_msg \o <<"). Reload UI or check logs.">>
InitErrorMessage(error_msg) ==
    <<"Agent Init Error: ">> \o error_msg \o <<". Check logs.">>
NoAgentMessage    == <<"Error: Agent unavailable after initialization.">>

\* not user_input or user_input.strip() == ""
IsBlank(user_input) == user_input = <<>> \/ Strip(user_input) = <<>>

\* chat_interface without its check of the input (main.py:104-105 left out)
chat_gate_no_validation(user_input) ==
    IF ~initialization_complete
    THEN (IF is_initializing THEN "wait" ELSE "not_ready")
    ELSE IF initialization_error_message # <<>> THEN "init_error"
    ELSE IF agent = "None" THEN "no_agent"
    ELSE "dispatch"

\* chat_interface without its checks of the initialization (main.py:85-102
\* left out)
chat_gate_no_init_check(user_input) ==
    IF IsBlank(user_input) THEN "validation" ELSE "dispatch"

\* src/main.py:85-105, the branch chat_interface takes
chat_gate(user_input) ==
    IF ~initialization_complete
    THEN (IF is_initializing THEN "wait" ELSE "not_ready")
    ELSE IF initialization_error_message # <<>> THEN "init_error"
    ELSE IF agent = "None" THEN "no_agent"
    ELSE IF IsBlank(user_input) THEN "validation"
    ELSE "dispatch"

\* an initialization has been triggered: a task is created or running
InitTriggered ==
    is_initializing \/ \E t \in Tasks : tasks[t] \in {"scheduled", "awaiting"}

\* when, relative to the initialization, a submission arrives
ArrivalPhase ==
    IF initialization_complete THEN "after"
    ELSE IF InitTriggered THEN "window" ELSE "before"

UserInputs == {<<>>, <<" ">>, <<"q">>}

\* the accumulators live on the agent: a call starts from what another
\* call has accumulated
shared_accumulators(i) ==
    LET others == {j \in CallIds \ {i} :
                      calls[j].accumulated_text # <<>> \/ calls[j].accumulated_tool_info # <<>>}
    IN IF others = {} THEN [text |-> <<>>, tools |-> <<>>]
       ELSE Acc(calls[CHOOSE j \in others : TRUE])

\* accumulated_text = [] and accumulated_tool_info = [] (mcp_agent.py:30-31):
\* _get_streaming_callback makes new lists at every call of process_query
fresh_accumulators(i) == [text |-> <<>>, tools |-> <<>>]

\* chat_interface is called: it runs to its first await or to its return
ChatEnter(i, user_input, show_tool_activity) ==
    /\ calls[i].pc = "idle"
    /\ LET branch == chat_gate(user_input)
           c == [IdleCall EXCEPT !.user_input = user_input,
                                 !.show_tool_activity = show_tool_activity,
                                 !.arrived = ArrivalPhase,
                                 !.after_failure = calls[i].after_failure]
           returned(ret) == [c EXCEPT !.pc = "done", !.ret = ret]
       IN calls' = [calls EXCEPT ![i] =
            CASE branch = "wait" -> [c EXCEPT !.pc = "sleep"]
              [] branch = "not_ready" ->
                   returned(Ret(NotReadyMessage(
                       IF initialization_error_message # <<>>
                       THEN initialization_error_message
                       ELSE <<"not started/failed">>), <<>>, <<"N/A">>))
              [] branch = "init_error" ->
                   returned(Ret(InitErrorMessage(initialization_error_message),
                                <<>>, <<"Error">>))
              [] branch = "no_agent" -> returned(Ret(NoAgentMessage, <<>>, <<"Error">>))
              [] branch = "validation" -> returned(Ret(ValidationMessage, <<>>, <<"None">>))
              [] OTHER -> [c EXCEPT !.pc = "stream",
                                    !.accumulated_text = fresh_accumulators(i).text,
                                    !.accumulated_tool_info = fresh_accumulators(i).tools]]
    /\ UNCHANGED <<globals, tasks, world>>

\* await asyncio.sleep(0.5) is over: return wait_message, "", "N/A"
ChatWake(i) ==
    /\ calls[i].pc = "sleep"
    /\ calls' = [calls EXCEPT ![i] =
                    [@ EXCEPT !.pc = "done", !.ret = Ret(WaitMessage, <<>>, <<"N/A">>)]]
    /\ UNCHANGED <<globals, tasks, world>>

\* the stream yields a chunk: callback_func(chunk.ops[0]["value"]);
\* a first operation without "value" raises KeyError, caught at line 71.
\* limit bounds the chunks of the turn
StreamChunk(i, chunk, limit) ==
    /\ calls[i].pc = "stream"
    /\ Len(calls[i].chunks) < limit
    /\ LET c == [calls[i] EXCEPT !.chunks = Append(@, chunk)]
       IN calls' = [calls EXCEPT ![i] =
            IF ~chunk[1].has_value
            THEN Finish([c EXCEPT !.raised = TRUE], ErrorResponse(<<"'value'">>))
            ELSE LET acc == callback_func(chunk[1].value, Acc(c))
                 IN [c EXCEPT !.accumulated_text = acc.text,
                              !.accumulated_tool_info = acc.tools]]
    /\ UNCHANGED <<globals, tasks, world>>

\* the except clause of process_query also drops main.py's agent
StreamRaise_drops_agent(i, e) ==
    /\ calls[i].pc = "stream"
    /\ calls' = [calls EXCEPT ![i] = Finish([@ EXCEPT !.raised = TRUE], ErrorResponse(e))]
    /\ agent' = "None"
    /\ UNCHANGED <<mcp_client, initialization_error_message, is_initializing,
                   initialization_complete, available_tool_names, tasks, world>>

\* the stream raises (the model call fails, the graph gives up)
StreamRaise(i, e) ==
    /\ calls[i].pc = "stream"
    /\ calls' = [calls EXCEPT ![i] = Finish([@ EXCEPT !.raised = TRUE], ErrorResponse(e))]
    /\ UNCHANGED <<globals, tasks, world>>

\* the task running chat_interface is cancelled while it is suspended in
\* the stream: asyncio.CancelledError is not an Exception, so it passes
\* the except clauses of mcp_agent.py:71 and main.py:138 and leaves
\* chat_interface, which returns nothing
StreamCancel(i) ==
    /\ calls[i].pc = "stream"
    /\ calls' = [calls EXCEPT ![i].pc = "cancelled"]
    /\ UNCHANGED <<globals, tasks, world>>

\* the stream is exhausted
StreamEnd(i) ==
    /\ calls[i].pc = "stream"
    /\ calls' = [calls EXCEPT ![i] = Finish(@, OutputResponse(@))]
    /\ UNCHANGED <<globals, tasks, world>>

\* time passes while process_query is suspended in the stream
Tick(i) ==
    /\ calls[i].pc = "stream"
    /\ calls[i].elapsed < MaxTicks * TickSeconds
    /\ calls' = [calls EXCEPT ![i].elapsed = @ + TickSeconds]
    /\ UNCHANGED <<globals, tasks, world>>

\* the UI has shown the returned tuple; the handler can be called again
ChatCollect(i) ==
    /\ calls[i].pc \in {"done", "cancelled"}
    /\ calls' = [calls EXCEPT ![i] = IdleCall]
    /\ UNCHANGED <<globals, tasks, world>>

\* the same, remembering in the idle record whether a turn of this handler
\* has failed so far
ChatAgain(i) ==
    /\ calls[i].pc \in {"done", "cancelled"}
    /\ calls' = [calls EXCEPT ![i] =
                    [IdleCall EXCEPT !.after_failure =
                                         calls[i].raised \/ calls[i].after_failure]]
    /\ UNCHANGED <<globals, tasks, world>>

\* -------------------------------------------- initialization (main.py)
\* sorted(names): the order of Python's string comparison on ToolNames
Rank(name) == IF name = "get_time" THEN 1 ELSE 2

RECURSIVE Insert(_, _)
Insert(x, sorted) ==
    IF sorted = <<>> THEN <<x>>
    ELSE IF Rank(x) < Rank(Head(sorted)) THEN <<x>> \o sorted
    ELSE <<Head(sorted)>> \o Insert(x, Tail(sorted))

RECURSIVE Sorted(_)
Sorted(names) ==
    IF names = <<>> THEN <<>> ELSE Insert(names[Len(names)], Sorted(SubSeq(names, 1, Len(names) - 1)))

\* a tool server named in mcp_server.json: whether a connection to it
\* succeeds, and the tools it exposes (tools are known by their names)
Server(reachable, tools) == [reachable |-> reachable, tools |-> tools]
ServerTools == {<<"get_weather">>, <<"get_time">>}
Servers == [reachable : BOOLEAN, tools : ServerTools]

\* the lists of at most n servers
RECURSIVE ServerLists(_)
ServerLists(n) ==
    IF n = 0 THEN {<<>>}
    ELSE LET shorter == ServerLists(n - 1)
         IN shorter \cup {Append(l, sv) : l \in {x \in shorter : Len(x) = n - 1},
                                           sv \in Servers}

\* mcp_server.json: missing, unreadable (bad JSON, no "mcpServers" key), or
\* naming the servers of its "mcpServers" entry
ConfigFile(file, servers) == [file |-> file, servers |-> servers]
Configs ==
    {ConfigFile("missing", <<>>), ConfigFile("malformed", <<>>)}
        \cup {ConfigFile("ok", l) : l \in ServerLists(MaxServers)}

\* the configurations the application is run with in Spec: no file, one
\* server that is down, two servers that are up
WorkingConfig ==
    ConfigFile("ok", <<Server(TRUE, <<"get_weather">>), Server(TRUE, <<"get_time">>)>>)
AppConfigs ==
    {ConfigFile("missing", <<>>),
     ConfigFile("ok", <<Server(FALSE, <<"get_weather">>)>>),
     WorkingConfig}

\* src/mcp_client.py:49-67, _load_server_list(): both handlers return {}
load_server_list(config) ==
    IF config.file = "missing" THEN <<>>
    ELSE IF config.file = "malformed" THEN <<>>
    ELSE config.servers

RECURSIVE AllTools(_)
AllTools(server_list) ==
    IF server_list = <<>> THEN <<>>
    ELSE Head(server_list).tools \o AllTools(Tail(server_list))

\* await self.client.get_tools() (mcp_client.py:40): the library opens a
\* session to every server of the list and returns their tools one list
\* after the other; a connection that fails raises out of the call
get_tools(server_list) ==
    IF \E k \in 1..Len(server_list) : ~server_list[k].reachable
    THEN [raised |-> TRUE, tools |-> <<>>]
    ELSE [raised |-> FALSE, tools |-> AllTools(server_list)]

\* initialize() with its except clause returning instead of raising
MCPClient_initialize_swallows(config) ==
    LET server_list == load_server_list(config)
    IN IF server_list = <<>>
       THEN [raised |-> FALSE, tools |-> <<>>, client |-> "None"]
       ELSE [raised |-> FALSE, tools |-> get_tools(server_list).tools,
             client |-> "MultiServerMCPClient"]

\* initialize() without the early return of mcp_client.py:28-30
MCPClient_initialize_no_early_return(config) ==
    LET got == get_tools(load_server_list(config))
    IN [raised |-> got.raised, tools |-> got.tools, client |-> "MultiServerMCPClient"]

\* src/mcp_client.py:21-47, MCPClient.initialize(): whether it raised, and
\* self.tools and self.client when it is over
MCPClient_initialize(config) ==
    LET server_list == load_server_list(config)
    IN IF server_list = <<>>
       THEN [raised |-> FALSE, tools |-> <<>>, client |-> "None"]
       ELSE LET got == get_tools(server_list)
            IN [raised |-> got.raised, tools |-> got.tools,
                client |-> "MultiServerMCPClient"]

\* what the environment decides for one run of the task body besides the
\* configuration: whether MCPAgent(...) raises
InitOutcomes == [agent_raises : BOOLEAN]

\* the except clause of the task records no message
InitFailedMessage_not_recorded(e) == <<>>

\* f"Agent initialization failed: {str(e)}" (main.py:66)
InitFailedMessage(e) == <<"Agent initialization failed: ">> \o e

\* the page-load handler looks at is_initializing only
ShouldTriggerInit_ignores_complete == ~is_initializing

\* run_initialization_and_update_status decides to trigger (main.py:198)
ShouldTriggerInit == ~initialization_complete /\ ~is_initializing

\* demo.load's handler (main.py:187-248); created tells whether
\* loop.create_task succeeded (lines 229-245 handle its raising).  The
\* status strings the handler returns are not part of the state
PageLoad(created) ==
    IF ~ShouldTriggerInit
    THEN UNCHANGED vars
    ELSE IF created
    THEN /\ \E t \in Tasks :
               /\ tasks[t] = "none"
               /\ \A u \in Tasks : u < t => tasks[u] # "none"
               /\ tasks' = [tasks EXCEPT ![t] = "scheduled"]
         /\ UNCHANGED <<globals, calls, world>>
    ELSE /\ initialization_error_message' = <<"Failed to create init task: ", "e">>
         /\ is_initializing' = FALSE
         /\ initialization_complete' = TRUE
         /\ UNCHANGED <<mcp_client, agent, available_tool_names, tasks, calls, world>>

\* the guard without its first operand
skip_when_complete_only == initialization_complete

\* the guard of initialize_agent_task (main.py:30)
skip_initialization == is_initializing \/ initialization_complete

\* initialize_agent_task up to its await (main.py:30-43); a task that
\* returns at the guard is "skipped", one that ran the body ends "done"
InitTaskStart(t) ==
    /\ tasks[t] = "scheduled"
    /\ IF skip_initialization
       THEN /\ tasks' = [tasks EXCEPT ![t] = "skipped"]
            /\ UNCHANGED <<globals, calls, world>>
       ELSE /\ is_initializing' = TRUE
            /\ initialization_error_message' = <<>>
            /\ available_tool_names' = <<>>
            /\ tasks' = [tasks EXCEPT ![t] = "awaiting"]
            /\ UNCHANGED <<mcp_client, agent, initialization_complete, calls, world>>

\* initialize_agent_task from the return of initialize() to its end
\* (main.py:43-76).  With no server configured initialize() returns without
\* suspending; the interleavings between the two steps are then a superset
\* of the program's
InitTaskFinish(t, env) ==
    /\ tasks[t] = "awaiting"
    /\ LET init == MCPClient_initialize(mcp_server_json)
       IN IF init.raised
          THEN /\ initialization_error_message' =
                      InitFailedMessage(<<"MCP client initialization failed">>)
               /\ agent' = "None"
               /\ available_tool_names' = <<>>
               /\ UNCHANGED mcp_client
          ELSE /\ mcp_client' = MCPClient(init.tools, init.client)
               /\ IF env.agent_raises
                  THEN /\ initialization_error_message' = InitFailedMessage(<<"e">>)
                       /\ agent' = "None"
                       /\ available_tool_names' = <<>>
                  ELSE /\ available_tool_names' = Sorted(init.tools)
                       /\ agent' = "MCPAgent"
                       /\ initialization_error_message' = <<>>
    /\ is_initializing' = FALSE
    /\ initialization_complete' = TRUE
    /\ tasks' = [tasks EXCEPT ![t] = "done"]
    /\ UNCHANGED <<calls, world>>

\* ------------------------------------------------- MCPAgent (thread id)
\* MCPAgent.__init__ (mcp_agent.py:17-27) builds the model, the graph and its
\* MemorySaver; it assigns no thread id
NewAgent(a) ==
    /\ ~agents[a].created
    /\ \A b \in AgentIds : b < a => agents[b].created
    /\ agents' = [agents EXCEPT ![a].created = TRUE]
    /\ UNCHANGED <<globals, tasks, calls, mcp_server_json, QUERY_THREAD_ID,
                   process, tool_servers>>

\* a failed turn made instance a take another thread id
thread_id_reset_after_failure(a) ==
    LET turns == agents[a].turns
    IN IF turns # <<>> /\ turns[Len(turns)].failed
       THEN (QUERY_THREAD_ID % MaxUuids) + 1
       ELSE QUERY_THREAD_ID

\* configurable={"thread_id": self.QUERY_THREAD_ID} (mcp_agent.py:59-62):
\* the attribute is looked up on the instance and found on the class
config_thread_id(a) == QUERY_THREAD_ID

\* one call of process_query on instance a (mcp_agent.py:52-78), which ends
\* by the stream raising (failed) or by its exhaustion
process_query(a, failed) ==
    /\ agents[a].created
    /\ Len(agents[a].turns) < MaxTurns
    /\ agents' = [agents EXCEPT ![a].turns =
                     Append(@, [thread_id |-> config_thread_id(a), failed |-> failed])]
    /\ UNCHANGED <<globals, tasks, calls, mcp_server_json, QUERY_THREAD_ID,
                   process, tool_servers>>

\* ------------------------------------------ retrieve (mcp_server_rag.py)
RetrieveIds == 1..MaxRetrieves

\* a call of retrieve: where it is, the string it returned, and the
\* retriever it invoked (0: none)
IdleRetrieve == [pc |-> "idle", result |-> <<>>, used |-> 0]

\* runs of _build_and_initialize_retriever: started, ended by setting the
\* instance, in progress
NoBuilds == [attempts |-> 0, successes |-> 0, running |-> 0]

\* what a run of the build routine meets: no PDF file, an exception of one
\* of its five steps, or neither
BuildOutcomes == {"no_pdf", "raises", "ok"}
\* what _retriever_instance.invoke(query) does
InvokeOutcomes == {"docs", "no_docs", "raises"}

\* src/mcp_tools/mcp_server_rag.py:26-82: the two globals after the run;
\* a new retriever is known by the number of the build that made it
build_and_initialize_retriever(outcome) ==
    IF outcome = "no_pdf"
    THEN [instance |-> retriever_instance, error |-> <<"FileNotFoundError">>]
    ELSE IF outcome = "raises"
    THEN [instance |-> 0, error |-> <<"e">>]
    ELSE [instance |-> builds.successes + 1, error |-> <<>>]

\* the strings retrieve returns (lines 118, 133, 156, 159-161, 167)
StoredErrorMessage(error)  == <<"Retriever cannot be initialized (stored error: ">> \o error
CurrentErrorMessage(error) == <<"Retriever initialization failed (current error: ">> \o error
NoDocsMessage        == <<"no information found">>
DocsResult           == <<"page_content">>
RetrievalErrorMessage == <<"error during retrieval: ", "e">>

\* retrieve enters the lock whoever holds it
lock_ignored == TRUE

\* asyncio.Lock: `async with _init_lock` goes on when the lock is free
lock_free == init_lock = 0

\* retrieve forgets the stored error and tries again
stored_error_ignored == FALSE

\* `if _retriever_initialization_error is not None` (line 116)
stored_error_set == retriever_initialization_error # <<>>

\* async with _init_lock (line 113): the call acquires the lock
RetrieveAcquire(r) ==
    /\ retrieves[r].pc = "idle"
    /\ lock_free
    /\ init_lock' = r
    /\ retrieves' = [retrieves EXCEPT ![r] = [IdleRetrieve EXCEPT !.pc = "locked"]]
    /\ UNCHANGED <<retriever_instance, retriever_initialization_error, builds,
                   client_cache, kube_loads, injection>>
    /\ UNCHANGED <<globals, tasks, calls, mcp_server_json, QUERY_THREAD_ID, agents, process>>

\* lines 114-125 and 136-137: with an instance the call leaves the lock;
\* with a stored error it returns the error string; else it starts the build
RetrieveCheck(r) ==
    /\ retrieves[r].pc = "locked"
    /\ IF retriever_instance # 0
       THEN /\ retrieves' = [retrieves EXCEPT ![r].pc = "ready"]
            /\ init_lock' = 0
            /\ UNCHANGED builds
       ELSE IF stored_error_set
       THEN /\ retrieves' = [retrieves EXCEPT ![r] =
                   [@ EXCEPT !.pc = "done",
                             !.result = StoredErrorMessage(retriever_initialization_error)]]
            /\ init_lock' = 0
            /\ UNCHANGED builds
       ELSE /\ retrieves' = [retrieves EXCEPT ![r].pc = "building"]
            /\ builds' = [builds EXCEPT !.attempts = @ + 1, !.running = @ + 1]
            /\ UNCHANGED init_lock
    /\ UNCHANGED <<retriever_instance, retriever_initialization_error,
                   client_cache, kube_loads, injection>>
    /\ UNCHANGED <<globals, tasks, calls, mcp_server_json, QUERY_THREAD_ID, agents, process>>

\* the build routine ends, and retrieve looks at the instance again (lines
\* 125-135).  The routine is synchronous: the program runs this step and
\* the one before without another call in between, so the interleavings
\* here are a superset of the program's
RetrieveBuilt(r, outcome) ==
    /\ retrieves[r].pc = "building"
    /\ LET built == build_and_initialize_retriever(outcome)
       IN /\ retriever_instance' = built.instance
          /\ retriever_initialization_error' = built.error
          /\ builds' = [builds EXCEPT !.running = @ - 1,
                                      !.successes = IF outcome = "ok" THEN @ + 1 ELSE @]
          /\ retrieves' = [retrieves EXCEPT ![r] =
                IF built.instance = 0
                THEN [@ EXCEPT !.pc = "done", !.result = CurrentErrorMessage(built.error)]
                ELSE [@ EXCEPT !.pc = "ready"]]
    /\ init_lock' = 0
    /\ UNCHANGED <<client_cache, kube_loads, injection>>
    /\ UNCHANGED <<globals, tasks, calls, mcp_server_json, QUERY_THREAD_ID, agents, process>>

\* lines 141-167: the search on _retriever_instance, and the return
RetrieveInvoke(r, outcome) ==
    /\ retrieves[r].pc = "ready"
    /\ retrieves' = [retrieves EXCEPT ![r] =
          [@ EXCEPT !.pc = "done",
                    !.used = retriever_instance,
                    !.result = IF outcome = "docs" THEN DocsResult
                               ELSE IF outcome = "no_docs" THEN NoDocsMessage
                               ELSE RetrievalErrorMessage]]
    /\ UNCHANGED <<retriever_instance, retriever_initialization_error, init_lock, builds,
                   client_cache, kube_loads, injection>>
    /\ UNCHANGED <<globals, tasks, calls, mcp_server_json, QUERY_THREAD_ID, agents, process>>

\* the client has the result; the tool can be called again
RetrieveReturn(r) ==
    /\ retrieves[r].pc = "done"
    /\ retrieves' = [retrieves EXCEPT ![r] = IdleRetrieve]
    /\ UNCHANGED <<retriever_instance, retriever_initialization_error, init_lock, builds,
                   client_cache, kube_loads, injection>>
    /\ UNCHANGED <<globals, tasks, calls, mcp_server_json, QUERY_THREAD_ID, agents, process>>

\* -------------------------------------- get_api_clients (kubeconfig.py)
ContextNames == {"ctx-a", "ctx-b", "ctx-c"}

\* per context: the calls made, the loads of kubeconfig started and ended
\* well, whether the last call raised, and the client set it returned
NoLoads == [c \in ContextNames |->
              [calls |-> 0, attempts |-> 0, successes |-> 0,
               raised |-> FALSE, returned |-> 0]]

\* get_api_clients loads kubeconfig on every call
always_loads(context_name) == TRUE

\* `if context_name not in _client_cache` (line 34); 0 is no entry
not_cached(context_name) == client_cache[context_name] = 0

\* src/core/kubeconfig.py:17-51; load_raises is config.load_kube_config
\* raising (unknown context, no kubeconfig file).  A client set is known by
\* the number of the load that made it
get_api_clients(context_name, load_raises) ==
    /\ kube_loads[context_name].calls < MaxKubeCalls
    /\ IF not_cached(context_name)
       THEN IF load_raises
            THEN /\ UNCHANGED client_cache
                 /\ kube_loads' = [kube_loads EXCEPT ![context_name] =
                       [@ EXCEPT !.calls = @ + 1, !.attempts = @ + 1,
                                 !.raised = TRUE, !.returned = 0]]
            ELSE /\ client_cache' = [client_cache EXCEPT ![context_name] =
                                       kube_loads[context_name].successes + 1]
                 /\ kube_loads' = [kube_loads EXCEPT ![context_name] =
                       [@ EXCEPT !.calls = @ + 1, !.attempts = @ + 1,
                                 !.successes = @ + 1, !.raised = FALSE,
                                 !.returned = client_cache'[context_name]]]
       ELSE /\ UNCHANGED client_cache
            /\ kube_loads' = [kube_loads EXCEPT ![context_name] =
                  [@ EXCEPT !.calls = @ + 1, !.raised = FALSE,
                            !.returned = client_cache[context_name]]]
    /\ UNCHANGED <<retriever_instance, retriever_initialization_error, init_lock,
                   retrieves, builds, injection>>
    /\ UNCHANGED <<globals, tasks, calls, mcp_server_json, QUERY_THREAD_ID, agents, process>>

\* ------------------------------------------ use_current_context (context.py)
\* an argument is a name, "None", or "absent" (not in the call)
Namespaces == {"team-a", "ns-x"}

\* config.list_kube_config_contexts(): the namespace each context carries
KubeContexts == [c \in ContextNames |-> IF c = "ctx-a" THEN "team-a" ELSE "absent"]

\* src/core/context.py:29-53
get_default_namespace(context_name) ==
    IF context_name \in DOMAIN KubeContexts /\ KubeContexts[context_name] # "absent"
    THEN KubeContexts[context_name]
    ELSE "default"

\* a call of a decorated function f(context_name, namespace): the
\* positional arguments, the keyword arguments, the active context, and
\* what f received (raised "TypeError": the call of f raised it and f
\* received nothing)
Received(raised, context_name, namespace) ==
    [raised |-> raised, context_name |-> context_name, namespace |-> namespace]
DecoratedCallOf(pc, args, kwargs, active, received) ==
    [pc |-> pc, args |-> args, kwargs |-> kwargs, active |-> active, received |-> received]
NoKwargs    == [context_name |-> "absent", namespace |-> "absent"]
NoInjection == DecoratedCallOf("idle", <<>>, NoKwargs, "ctx-a",
                               Received("", "absent", "absent"))

\* Python's binding of f(*args, **kwargs) for f(context_name, namespace)
Bind(args, kwargs) ==
    IF \/ Len(args) > 2
       \/ (Len(args) >= 1 /\ kwargs.context_name # "absent")
       \/ (Len(args) >= 2 /\ kwargs.namespace # "absent")
       \/ (Len(args) < 1 /\ kwargs.context_name = "absent")
       \/ (Len(args) < 2 /\ kwargs.namespace = "absent")
    THEN Received("TypeError", "absent", "absent")
    ELSE Received("",
                  IF Len(args) >= 1 THEN args[1] ELSE kwargs.context_name,
                  IF Len(args) >= 2 THEN args[2] ELSE kwargs.namespace)

\* src/core/context.py:71-90: wrapper(*args, **kwargs)
wrapper(args, kwargs, active) ==
    LET with_context ==
            IF kwargs.context_name \in {"absent", "None"}
            THEN [kwargs EXCEPT !.context_name = active]
            ELSE kwargs
        context_name == with_context.context_name
        with_namespace ==
            IF with_context.namespace \in {"absent", "None"}
            THEN [with_context EXCEPT !.namespace = get_default_namespace(context_name)]
            ELSE with_context
    IN Bind(args, with_namespace)

\* the calls a caller can write: no parameter given twice
ArgValues(k) == IF k = 1 THEN ContextNames \cup {"None"} ELSE Namespaces \cup {"None"}
PositionalArgs ==
    {<<>>} \cup {<<c>> : c \in ArgValues(1)}
           \cup {<<c, n>> : c \in ArgValues(1), n \in ArgValues(2)}
KeywordArgs(args) ==
    {k \in [context_name : ArgValues(1) \cup {"absent"},
            namespace : ArgValues(2) \cup {"absent"}] :
        /\ Len(args) >= 1 => k.context_name = "absent"
        /\ Len(args) >= 2 => k.namespace = "absent"}

\* a tool calls the decorated function
DecoratedCall(args, kwargs, active) ==
    /\ injection.pc = "idle"
    /\ injection' = DecoratedCallOf("returned", args, kwargs, active,
                                    wrapper(args, kwargs, active))
    /\ UNCHANGED <<retriever_instance, retriever_initialization_error, init_lock,
                   retrieves, builds, client_cache, kube_loads>>
    /\ UNCHANGED <<globals, tasks, calls, mcp_server_json, QUERY_THREAD_ID, agents, process>>

\* the tool goes on; the function can be called again
DecoratedReturn ==
    /\ injection.pc = "returned"
    /\ injection' = NoInjection
    /\ UNCHANGED <<retriever_instance, retriever_initialization_error, init_lock,
                   retrieves, builds, client_cache, kube_loads>>
    /\ UNCHANGED <<globals, tasks, calls, mcp_server_json, QUERY_THREAD_ID, agents, process>>

\* ------------------------------------------- the main thread (main.py)
\* an exception in the main thread; code is the argument of sys.exit
Raised(type, code) == [type |-> type, code |-> code]

\* src/main.py:21-23: sig_handler calls sys.exit(0)
sig_handler == Raised("SystemExit", 0)

\* an `except BaseException` in place of `except Exception`
main_try_catches_all(exc) ==
    IF exc.type = "KeyboardInterrupt" THEN Closing
    ELSE Process("exited", 1, FALSE)

\* src/main.py:269-288: what the try statement makes of an exception of
\* its body.  SystemExit is no Exception: it leaves the statement and ends
\* the interpreter with its code
main_try(exc) ==
    IF exc.type = "KeyboardInterrupt" THEN Closing
    ELSE IF exc.type = "Exception" THEN Process("exited", 1, FALSE)
    ELSE Process("exited", exc.code, FALSE)

\* an exception outside of the try statement (lines 290-291)
uncaught(exc) ==
    Process("exited", IF exc.type = "SystemExit" THEN exc.code ELSE 1, FALSE)

\* create_gradio_interface returns and demo.launch serves (lines 270-280)
Launch ==
    /\ process = Creating
    /\ process' = Serving
    /\ UNCHANGED <<globals, tasks, calls, mcp_server_json, QUERY_THREAD_ID, agents,
                   tool_servers>>

\* creating or launching the interface raises (the port is taken)
LaunchFails ==
    /\ process = Creating
    /\ process' = main_try(Raised("Exception", 0))
    /\ UNCHANGED <<globals, tasks, calls, mcp_server_json, QUERY_THREAD_ID, agents,
                   tool_servers>>

\* demo.launch returns: the server was closed
LaunchReturns ==
    /\ process = Serving
    /\ process' = Closing
    /\ UNCHANGED <<globals, tasks, calls, mcp_server_json, QUERY_THREAD_ID, agents,
                   tool_servers>>

\* the last line of the script is reached (line 291)
MainEnds ==
    /\ process = Closing
    /\ process' = Process("exited", 0, FALSE)
    /\ UNCHANGED <<globals, tasks, calls, mcp_server_json, QUERY_THREAD_ID, agents,
                   tool_servers>>

\* SIGINT: the handler installed at line 266 runs in the main thread and
\* raises there; the event loop and its tasks are in a daemon thread and
\* end with the interpreter
Sigint ==
    /\ process.pc # "exited"
    /\ process' = [(IF process.pc = "closing" THEN uncaught(sig_handler)
                                               ELSE main_try(sig_handler))
                      EXCEPT !.signalled = TRUE]
    /\ UNCHANGED <<globals, tasks, calls, mcp_server_json, QUERY_THREAD_ID, agents,
                   tool_servers>>

\* the event loop runs while the main thread is in demo.launch
Up == process.pc = "serving"

\* ------------------------------------------------------- specifications
\* the process has imported its modules (the class body of MCPAgent has run)
\* and nothing else has happened
AppIdle ==
    /\ mcp_client = NoClient
    /\ agent = "None"
    /\ initialization_error_message = <<>>
    /\ is_initializing = FALSE
    /\ initialization_complete = FALSE
    /\ available_tool_names = <<>>
    /\ tasks = [t \in Tasks |-> "none"]
    /\ calls = [i \in CallIds |-> IdleCall]
    /\ agents = [a \in AgentIds |-> NoAgent]

\* the tool servers have imported their modules and served no call
ServersIdle ==
    /\ retriever_instance = 0
    /\ retriever_initialization_error = <<>>
    /\ init_lock = 0
    /\ retrieves = [r \in RetrieveIds |-> IdleRetrieve]
    /\ builds = NoBuilds
    /\ client_cache = [c \in ContextNames |-> 0]
    /\ kube_loads = NoLoads
    /\ injection = NoInjection

\* the server is launched (main.py:276-280)
Boot == AppIdle /\ ServersIdle /\ process = Serving

\* the application does not read the value of the class attribute: Spec,
\* SpecStream and SpecClock fix one
SomeUuid == CHOOSE u \in UUIDs : TRUE

Init ==
    /\ mcp_server_json \in AppConfigs
    /\ QUERY_THREAD_ID = SomeUuid
    /\ Boot

Next ==
    \/ \E created \in BOOLEAN : PageLoad(created)
    \/ \E t \in Tasks : InitTaskStart(t)
    \/ \E t \in Tasks, env \in InitOutcomes : InitTaskFinish(t, env)
    \/ \E i \in CallIds, q \in UserInputs : ChatEnter(i, q, FALSE)
    \/ \E i \in CallIds : ChatWake(i)
    \/ \E i \in CallIds, chunk \in AppChunks : StreamChunk(i, chunk, MaxAppChunks)
    \/ \E i \in CallIds : StreamRaise(i, <<"boom">>)
    \/ \E i \in CallIds : StreamEnd(i)
    \/ \E i \in CallIds : ChatCollect(i)

\* the application: page loads, the initialization task, and concurrent
\* calls of chat_interface (the show-tool-activity flag, which only changes
\* the formatting of the result, is varied in SpecStream and SpecClock)
Spec == Init /\ [][Next]_vars

\* one turn of an initialized agent, over every chunk of Chunks
InitStream ==
    /\ mcp_client = MCPClient(<<"get_weather", "get_time">>, "MultiServerMCPClient")
    /\ agent = "MCPAgent"
    /\ initialization_error_message = <<>>
    /\ is_initializing = FALSE
    /\ initialization_complete = TRUE
    /\ available_tool_names = <<"get_time", "get_weather">>
    /\ tasks = [t \in Tasks |-> IF t = 1 THEN "done" ELSE "none"]
    /\ calls = [i \in CallIds |-> IdleCall]
    /\ mcp_server_json = WorkingConfig
    /\ QUERY_THREAD_ID = SomeUuid
    /\ agents = [a \in AgentIds |-> NoAgent]
    /\ process = Serving
    /\ ServersIdle

NextStream ==
    \/ \E show \in BOOLEAN : ChatEnter(1, <<"q">>, show)
    \/ \E chunk \in Chunks : StreamChunk(1, chunk, MaxChunks)
    \/ \E e \in StreamErrors : StreamRaise(1, e)
    \/ StreamEnd(1)

SpecStream == InitStream /\ [][NextStream]_vars

\* concurrent turns on an initialized agent, each handler called again
\* and again
NextTurns ==
    \/ \E i \in CallIds : ChatEnter(i, <<"q">>, FALSE)
    \/ \E i \in CallIds, chunk \in AppChunks : StreamChunk(i, chunk, MaxAppChunks)
    \/ \E i \in CallIds : StreamRaise(i, <<"boom">>)
    \/ \E i \in CallIds : StreamEnd(i)
    \/ \E i \in CallIds : ChatCollect(i)

SpecTurns == InitStream /\ [][NextTurns]_vars

\* one handler of an initialized agent called again and again, with a clock
NextClock ==
    \/ \E q \in UserInputs, show \in BOOLEAN : ChatEnter(1, q, show)
    \/ \E chunk \in AppChunks : StreamChunk(1, chunk, MaxChunks)
    \/ \E e \in StreamErrors : StreamRaise(1, e)
    \/ StreamEnd(1)
    \/ StreamCancel(1)
    \/ Tick(1)
    \/ ChatAgain(1)

SpecClock == InitStream /\ [][NextClock]_vars

\* the class MCPAgent on its own: the class body has run (uuid4() has
\* returned any of its values), instances are constructed and queried
InitThread ==
    /\ mcp_server_json = WorkingConfig
    /\ QUERY_THREAD_ID \in UUIDs
    /\ Boot

NextThread ==
    \/ \E a \in AgentIds : NewAgent(a)
    \/ \E a \in AgentIds, failed \in BOOLEAN : process_query(a, failed)

SpecThread == InitThread /\ [][NextThread]_vars

\* discovery and construction over every configuration of Configs, with one
\* handler of chat_interface
InitDiscovery ==
    /\ mcp_server_json \in Configs
    /\ QUERY_THREAD_ID = SomeUuid
    /\ Boot

NextDiscovery ==
    \/ \E created \in BOOLEAN : PageLoad(created)
    \/ \E t \in Tasks : InitTaskStart(t)
    \/ \E t \in Tasks, env \in InitOutcomes : InitTaskFinish(t, env)
    \/ \E q \in UserInputs : ChatEnter(1, q, FALSE)
    \/ ChatWake(1)
    \/ \E e \in StreamErrors : StreamRaise(1, e)
    \/ StreamEnd(1)
    \/ ChatCollect(1)

SpecDiscovery == InitDiscovery /\ [][NextDiscovery]_vars

\* the same, the event loop running every task that is ready: a task that
\* waits for initialize() is resumed when the call returns or raises
SpecInitLive ==
    /\ InitDiscovery
    /\ [][NextDiscovery]_vars
    /\ WF_vars(\E t \in Tasks, env \in InitOutcomes : InitTaskFinish(t, env))

\* the application from the installation of the signal handler on
InitSignal ==
    /\ mcp_server_json \in AppConfigs
    /\ QUERY_THREAD_ID = SomeUuid
    /\ AppIdle
    /\ ServersIdle
    /\ process = Creating

NextSignal ==
    \/ Launch
    \/ LaunchFails
    \/ LaunchReturns
    \/ MainEnds
    \/ Sigint
    \/ Up /\ \E created \in BOOLEAN : PageLoad(created)
    \/ Up /\ \E t \in Tasks : InitTaskStart(t)
    \/ Up /\ \E t \in Tasks, env \in InitOutcomes : InitTaskFinish(t, env)
    \/ Up /\ \E q \in UserInputs : ChatEnter(1, q, FALSE)
    \/ Up /\ ChatWake(1)
    \/ Up /\ \E chunk \in AppChunks : StreamChunk(1, chunk, MaxAppChunks)
    \/ Up /\ StreamEnd(1)
    \/ Up /\ ChatCollect(1)

SpecSignal == InitSignal /\ [][NextSignal]_vars

\* the tool servers alone: the application has served nothing yet
InitServers ==
    /\ mcp_server_json = WorkingConfig
    /\ QUERY_THREAD_ID = SomeUuid
    /\ Boot

\* the RAG server under calls of retrieve that arrive at any time
NextRag ==
    \E r \in RetrieveIds :
        \/ RetrieveAcquire(r)
        \/ RetrieveCheck(r)
        \/ \E outcome \in BuildOutcomes : RetrieveBuilt(r, outcome)
        \/ \E outcome \in InvokeOutcomes : RetrieveInvoke(r, outcome)
        \/ RetrieveReturn(r)

SpecRag == InitServers /\ [][NextRag]_vars

\* the Kubernetes server under calls of get_api_clients for any context
NextKube ==
    \E context_name \in ContextNames, load_raises \in BOOLEAN :
        get_api_clients(context_name, load_raises)

SpecKube == InitServers /\ [][NextKube]_vars

\* a decorated function f(context_name, namespace) under every call a
\* caller can write, with any context active
NextContext ==
    \/ \E args \in PositionalArgs, active \in ContextNames :
          \E kwargs \in KeywordArgs(args) : DecoratedCall(args, kwargs, active)
    \/ DecoratedReturn

SpecContext == InitServers /\ [][NextContext]_vars

\* ---------------------------------------------------------------- claims
\* initialization has finished, without error, and there is an agent
Ready ==
    /\ initialization_complete
    /\ initialization_error_message = <<>>
    /\ agent # "None"

\* process_query returned normally: the stream was exhausted
Completed(c) == c.pc = "done" /\ "output" \in c.response.keys

RECURSIVE SelectMsgs(_, _)
SelectMsgs(messages, kind) ==
    IF messages = <<>> THEN <<>>
    ELSE (IF (kind = "text" /\ IsTextDelta(Head(messages)))
              \/ (kind = "tool" /\ IsToolResult(Head(messages)))
          THEN <<Head(messages)>> ELSE <<>>) \o SelectMsgs(Tail(messages), kind)

\* the text deltas and the tool results a stream emitted, in emission order
EmittedDeltas(chunks) ==
    LET ms == SelectMsgs(StreamMessages(chunks), "text")
    IN [k \in 1..Len(ms) |-> ms[k].content]
EmittedToolResults(chunks) == SelectMsgs(StreamMessages(chunks), "tool")

\* every operation of every chunk carries steps whose messages are all text
\* deltas, none with a lone surrogate
OnlyTextDeltas(chunks) ==
    \A n \in 1..Len(chunks) :
        /\ \A o \in 1..Len(chunks[n]) :
              /\ chunks[n][o].has_value
              /\ chunks[n][o].value.isdict
              /\ \A e \in 1..Len(chunks[n][o].value.items) :
                    /\ chunks[n][o].value.items[e].isdict
                    /\ chunks[n][o].value.items[e].has_messages
        /\ \A k \in 1..Len(ChunkMessages(chunks[n])) :
              /\ IsTextDelta(ChunkMessages(chunks[n])[k])
              /\ \A x \in 1..Len(ChunkMessages(chunks[n])[k].content) :
                    ChunkMessages(chunks[n])[k].content[x] # "U"

\* C1: when the stream of a turn carries only assistant text deltas, the
\* "output" process_query returns is the trimmed concatenation of all the
\* deltas in emission order: none lost, duplicated or reordered.  (Stated
\* for deltas without a lone surrogate, which Utf8Replace would rewrite: the
\* turns that refute it lose a whole delta.)
C1_OutputIsTrimmedConcatenation ==
    \A i \in CallIds :
        Completed(calls[i]) /\ OnlyTextDeltas(calls[i].chunks)
            => calls[i].response.output = Strip(Join(EmittedDeltas(calls[i].chunks)))

\* C2: the tool trace process_query returns has one entry per tool result the
\* stream emitted during the turn, in the order of emission, also when one
\* chunk carries several operations or several steps.
C2_ToolTraceHasEveryResultInOrder ==
    \A i \in CallIds :
        Completed(calls[i])
            => LET results == EmittedToolResults(calls[i].chunks)
               IN calls[i].response.tool_calls =
                      JoinSep(<<"\n">>, [k \in 1..Len(results) |-> ToolInfo(results[k])])

NoTextSentinel == <<"no textual response produced">>

\* C3: a turn that completes without any text delta hands the caller the
\* sentinel "no textual response produced", never the empty string.
C3_NoTextGivesSentinel ==
    \A i \in CallIds :
        Completed(calls[i]) /\ EmittedDeltas(calls[i].chunks) = <<>>
            => /\ calls[i].ret.answer = NoTextSentinel
               /\ calls[i].ret.answer # <<>>

\* the event process_query feeds the aggregator (the first operation of the
\* chunk) matches no accumulator branch
NoMatch(chunk) ==
    \/ ~chunk[1].has_value
    \/ ~chunk[1].value.isdict
    \/ AgentStepKey(chunk[1].value) = 0
    \/ LET ms == chunk[1].value.items[AgentStepKey(chunk[1].value)].messages
       IN \A k \in 1..Len(ms) : ~IsTextDelta(ms[k]) /\ ~IsToolResult(ms[k])

\* C4: feeding an event that matches no accumulator branch changes neither
\* accumulator and does not end the turn in an error.
C4_NoMatchIsNoOp ==
    [][\A i \in CallIds :
          (/\ calls[i].pc = "stream"
           /\ Len(calls'[i].chunks) = Len(calls[i].chunks) + 1
           /\ NoMatch(calls'[i].chunks[Len(calls'[i].chunks)]))
          => /\ Acc(calls'[i]) = Acc(calls[i])
             /\ "error" \notin calls'[i].response.keys]_vars

\* chat_interface is entered by handler i in this step
Enters(i) == calls[i].pc = "idle" /\ calls'[i].pc # "idle"

\* C5 as stated: for every empty or whitespace-only query, in every
\* initialization state, chat_interface returns the validation message
\* without calling process_query and without changing any state.
C5_BlankAlwaysGetsValidationMessage ==
    [][\A i \in CallIds :
          Enters(i) /\ IsBlank(calls'[i].user_input)
          => /\ calls'[i].pc = "done"
             /\ calls'[i].ret.answer = ValidationMessage
             /\ calls'[i].response.keys = {}
             /\ UNCHANGED <<globals, tasks, world>>]_vars

\* C5 as amended: an empty or whitespace-only query never reaches
\* process_query and changes no global or session state in any
\* initialization state; it is answered with the validation message when
\* initialization has completed without error and the agent exists, and
\* with the message of the initialization gate otherwise.
C5_BlankNeverDispatched ==
    /\ [](\A i \in CallIds :
            IsBlank(calls[i].user_input)
            => calls[i].pc # "stream" /\ calls[i].response.keys = {})
    /\ [][\A i \in CallIds :
            Enters(i) /\ IsBlank(calls'[i].user_input)
            => /\ UNCHANGED <<globals, tasks, world>>
               /\ \A j \in CallIds \ {i} : calls'[j] = calls[j]
               /\ Ready => /\ calls'[i].pc = "done"
                           /\ calls'[i].ret.answer = ValidationMessage
               /\ ~Ready => calls'[i].ret.answer # ValidationMessage]_vars

C5_Witness ==
    \E i \in CallIds :
        /\ calls[i].pc = "done"
        /\ calls[i].user_input = <<" ">>
        /\ calls[i].ret.answer = ValidationMessage
        /\ Ready

\* C6: a process_query call is in flight, or has returned a result, only
\* when initialization has completed without error and the agent exists.
C6_DispatchOnlyWhenReady ==
    \A i \in CallIds :
        (calls[i].pc = "stream" \/ calls[i].response.keys # {}) => Ready

C6_Witness ==
    \E i \in CallIds :
        /\ calls[i].pc = "stream"
        /\ calls[i].chunks # <<>>
        /\ calls[i].arrived = "after"

\* C7: a submission that arrives after initialization was triggered and
\* before it has finished is answered with the still-initializing message.
C7_WindowSubmissionsAreToldToWait ==
    \A i \in CallIds :
        calls[i].arrived = "window" /\ calls[i].pc = "done"
            => calls[i].ret.answer = WaitMessage

\* C8: at most one turn is in flight at any time.
C8_AtMostOneTurnInFlight ==
    Cardinality({i \in CallIds : calls[i].pc = "stream"}) <= 1

\* C10: no turn is still suspended once TIMEOUT_SECONDS have passed.
C10_TurnEndsAtTimeout ==
    \A i \in CallIds :
        calls[i].pc = "stream" => calls[i].elapsed <= TIMEOUT_SECONDS

\* the thread ids instance a has passed to the checkpoint mechanism
ThreadIdsOf(a) == {agents[a].turns[k].thread_id : k \in 1..Len(agents[a].turns)}

\* C11: two distinct MCPAgent instances of one process never pass the same
\* thread_id to the checkpoint mechanism.
C11_InstancesUseDistinctThreadIds ==
    \A a, b \in AgentIds :
        a # b => ThreadIdsOf(a) \cap ThreadIdsOf(b) = {}

\* C12: every process_query call on one MCPAgent passes the same thread_id,
\* whatever the outcomes of the earlier turns.
C12_ThreadIdStablePerInstance ==
    \A a \in AgentIds : Cardinality(ThreadIdsOf(a)) <= 1

\* an instance has run a turn after a failed one
C12_Witness ==
    \E a \in AgentIds :
        /\ Len(agents[a].turns) >= 2
        /\ agents[a].turns[1].failed
        /\ ~agents[a].turns[2].failed

\* the answer chat_interface gives for the error text e of a failed turn
Diagnostic(e) ==
    IF e # <<>> THEN <<"[Agent Error] ">> \o e ELSE <<"[Error] No output.">>

\* C13: a turn whose stream raised has returned, its result holds the error
\* and nothing else, and the answer handed to the UI is the diagnostic made
\* of that error; a call that returned without reaching the agent, whatever
\* the initialization state, returned a message too.
C13_FailedTurnGivesDiagnostic ==
    \A i \in CallIds :
        LET c == calls[i]
        IN /\ c.raised =>
                /\ c.pc = "done"
                /\ c.response.keys = {"error"}
                /\ c.ret.answer = Diagnostic(c.response.error)
                /\ c.ret.answer # <<>>
           /\ c.pc = "done" /\ c.response.keys = {} => c.ret.answer # <<>>

\* a turn has failed with a message
C13_Witness ==
    \E i \in CallIds :
        /\ calls[i].raised
        /\ calls[i].response.error = <<"boom">>
        /\ calls[i].ret.answer = <<"[Agent Error] ", "boom">>

\* C14: the step in which a turn fails changes nothing but that call, and a
\* non-blank query submitted after any number of failed turns is dispatched
\* to the agent.
C14_SessionUsableAfterFailure ==
    /\ [](\A i \in CallIds :
            LET c == calls[i]
            IN c.after_failure /\ ~IsBlank(c.user_input)
                  => \/ c.pc \in {"stream", "cancelled"}
                     \/ c.pc = "done" /\ c.response.keys # {})
    /\ [][\A i \in CallIds :
            calls'[i].raised /\ ~calls[i].raised => UNCHANGED <<globals, tasks, world>>]_vars

\* a turn entered after a failed one has succeeded with a text
C14_Witness ==
    \E i \in CallIds :
        /\ calls[i].after_failure
        /\ Completed(calls[i])
        /\ calls[i].response.output # <<>>

\* ------------------------------------------------------ discovery claims
Configured == mcp_server_json.file = "ok" /\ mcp_server_json.servers # <<>>

ReachableServers ==
    {k \in 1..Len(mcp_server_json.servers) : mcp_server_json.servers[k].reachable}

\* the task body has run to its end (initialization did not end by the
\* failure to create the task, main.py:229-245)
InitializeRan ==
    /\ initialization_complete
    /\ initialization_error_message # <<"Failed to create init task: ", "e">>

InitializeRaised ==
    initialization_error_message = InitFailedMessage(<<"MCP client initialization failed">>)

\* the tools of the reachable servers, in the order of the file
RECURSIVE ReachableTools(_)
ReachableTools(server_list) ==
    IF server_list = <<>> THEN <<>>
    ELSE (IF Head(server_list).reachable THEN Head(server_list).tools ELSE <<>>)
            \o ReachableTools(Tail(server_list))

\* C15: with several servers configured and at least one of them reachable,
\* initialize() does not raise and ends with the tools of the reachable
\* servers, which are not none.
C15_UnreachableServersAreSkipped ==
    /\ Configured
    /\ Len(mcp_server_json.servers) >= 2
    /\ ReachableServers # {}
    /\ InitializeRan
    => /\ ~InitializeRaised
       /\ ~mcp_client.is_none
       /\ mcp_client.tools = ReachableTools(mcp_server_json.servers)
       /\ mcp_client.tools # <<>>

\* C16: with servers configured and none of them reachable, initialize()
\* raises, initialization ends with its error message and without agent,
\* and every submit made afterwards returns the initialization error
\* without a call of process_query.
C16_TotalDiscoveryFailureIsSurfaced ==
    Configured /\ ReachableServers = {}
    => /\ InitializeRan
          => /\ InitializeRaised
             /\ agent = "None"
             /\ mcp_client.is_none
       /\ \A i \in CallIds :
            calls[i].arrived = "after"
               => /\ calls[i].pc = "done"
                  /\ calls[i].response.keys = {}
                  /\ calls[i].ret.answer = InitErrorMessage(initialization_error_message)
                  /\ initialization_error_message # <<>>

C16_Witness ==
    /\ Configured /\ ReachableServers = {}
    /\ InitializeRan
    /\ calls[1].arrived = "after"
    /\ calls[1].user_input = <<"q">>
    /\ calls[1].pc = "done"

\* two servers of the file expose a tool of the same name
Collision ==
    /\ Configured
    /\ \E k, l \in 1..Len(mcp_server_json.servers) :
          /\ k # l
          /\ \E x \in 1..Len(mcp_server_json.servers[k].tools),
                y \in 1..Len(mcp_server_json.servers[l].tools) :
                mcp_server_json.servers[k].tools[x] = mcp_server_json.servers[l].tools[y]

NoDuplicates(names) ==
    \A x, y \in 1..Len(names) : x # y => names[x] # names[y]

\* C17: when two configured servers expose a tool of the same name,
\* initialization ends with an error and never with both entries kept.
C17_NameCollisionIsReported ==
    Collision /\ InitializeRan
    => /\ initialization_error_message # <<>>
       /\ NoDuplicates(mcp_client.tools)
       /\ NoDuplicates(available_tool_names)

\* C18: with no mcp_server.json, initialize() returns without raising, with
\* no tool and without constructing the MultiServerMCPClient, and unless
\* the construction of the MCPAgent itself raises, initialization ends
\* with the agent and without error message.
C18_MissingConfigIsNotFatal ==
    mcp_server_json.file = "missing" /\ InitializeRan
    => /\ ~InitializeRaised
       /\ ~mcp_client.is_none
       /\ mcp_client.tools = <<>>
       /\ mcp_client.client = "None"
       /\ available_tool_names = <<>>
       /\ initialization_error_message # InitFailedMessage(<<"e">>)
             => agent = "MCPAgent" /\ initialization_error_message = <<>>

\* with no file, a query has been dispatched to the agent
C18_Witness ==
    /\ mcp_server_json.file = "missing"
    /\ InitializeRan
    /\ agent = "MCPAgent"
    /\ calls[1].pc = "stream"

\* ------------------------------------------------- tool failures, aborts
\* a tool result that reports the failure of the invocation
IsToolFailure(m) == m.type = "tool" /\ m.content # <<>> /\ Head(m.content) = "Error: "

\* C19: in a completed turn during which exactly one tool invocation failed,
\* the tool trace holds exactly one entry with the error text, and if the
\* model produced text after the failure the answer is not empty.
C19_ToolFailureDoesNotAbort ==
    \A i \in CallIds :
        Completed(calls[i])
            => LET c  == calls[i]
                   ms == StreamMessages(c.chunks)
                   failures == {k \in 1..Len(ms) : IsToolFailure(ms[k])}
               IN \A k \in failures :
                     failures = {k}
                        => /\ Cardinality({n \in 1..Len(c.accumulated_tool_info) :
                                   c.accumulated_tool_info[n] = ToolInfo(ms[k])}) = 1
                           /\ c.response.tool_calls # <<>>
                           /\ (\E l \in (k + 1)..Len(ms) :
                                    IsTextDelta(ms[l]) /\ Strip(ms[l].content) # <<>>)
                                 => c.response.output # <<>>

\* the turn was aborted: its stream raised, or its task was cancelled
Aborted(c) == c.raised \/ c.pc = "cancelled"

\* C20: an aborted turn returns nothing of what it had accumulated: its
\* result has no "output" and no "tool_calls", no tool-activity log is
\* shown, and the answer is at most the diagnostic of the error.
C20_AbortedTurnReturnsNoPartial ==
    \A i \in CallIds :
        LET c == calls[i]
        IN Aborted(c)
             => /\ c.response.keys \cap {"output", "tool_calls"} = {}
                /\ c.ret.log = <<>>
                /\ c.ret.answer = IF c.raised THEN Diagnostic(c.response.error) ELSE <<>>

\* a turn shown with tool activity raised after a text delta and a tool result
C20_Witness ==
    \E i \in CallIds :
        /\ calls[i].raised
        /\ calls[i].show_tool_activity
        /\ calls[i].accumulated_text # <<>>
        /\ calls[i].accumulated_tool_info # <<>>

\* ------------------------------------------------- initialization claims
\* the tasks that have entered the body of initialize_agent_task
BodyRuns == {t \in Tasks : tasks[t] \in {"awaiting", "done"}}

\* C21: whatever the page loads, the body of initialize_agent_task is
\* entered at most once, and once initialization_complete is true no step
\* changes mcp_client, agent or available_tool_names.
C21_DiscoveryRunsAtMostOnce ==
    /\ [](Cardinality(BodyRuns) <= 1)
    /\ [][initialization_complete
            => UNCHANGED <<mcp_client, agent, available_tool_names>>]_vars

\* the body has run to its end and another task has returned at the guard
C21_Witness ==
    /\ initialization_complete
    /\ \E t, u \in Tasks : tasks[t] = "done" /\ tasks[u] = "skipped"

\* ------------------------------------------------------ per-turn claims
\* what callback_func accumulates over the chunks of one turn, from empty
\* lists; a chunk whose first operation has no value ends the turn
RECURSIVE Replay(_, _)
Replay(chunks, acc) ==
    IF chunks = <<>> THEN acc
    ELSE IF ~Head(chunks)[1].has_value THEN acc
    ELSE Replay(Tail(chunks), callback_func(Head(chunks)[1].value, acc))

\* C22: the accumulators of a turn, and the result made of them, hold what
\* the callback recorded from the chunks of that turn and nothing else, and
\* a returned result is not changed by a step of another turn.
C22_ResultHoldsOnlyOwnEvents ==
    /\ [](\A i \in CallIds :
            LET c == calls[i]
            IN /\ Acc(c) = Replay(c.chunks, [text |-> <<>>, tools |-> <<>>])
               /\ Completed(c) => c.response = OutputResponse(c))
    /\ [][\A i \in CallIds :
            calls[i].pc = "done" /\ calls'[i].pc = "done" => calls'[i] = calls[i]]_vars

\* a turn has returned its own text while another turn, which recorded a
\* tool result, is in flight or has returned
C22_Witness ==
    \E i, j \in CallIds :
        /\ i # j
        /\ Completed(calls[i])
        /\ calls[i].accumulated_text # <<>>
        /\ calls[i].accumulated_tool_info = <<>>
        /\ calls[j].accumulated_tool_info # <<>>

C29_FlagsAreConsistent ==
    /\ ~(is_initializing /\ initialization_complete)
    /\ initialization_complete
          => ((agent # "None") <=> (initialization_error_message = <<>>))

\* initialization has ended with an agent
C29_Witness ==
    /\ initialization_complete
    /\ agent = "MCPAgent"
    /\ initialization_error_message = <<>>
    /\ \E t \in Tasks : tasks[t] = "done"

\* a task is created, or a task enters the body of initialize_agent_task
AttemptStarts ==
    \E t \in Tasks :
        \/ tasks[t] = "none" /\ tasks'[t] = "scheduled"
        \/ tasks[t] = "scheduled" /\ tasks'[t] = "awaiting"

\* C30: an initialization that has entered its body ends with
\* is_initializing false and initialization_complete true; from then on
\* initialization_complete stays true and no attempt starts.
C30_InitializationEnds ==
    /\ is_initializing ~> (~is_initializing /\ initialization_complete)
    /\ [][initialization_complete
            => initialization_complete' /\ ~AttemptStarts]_vars

\* an initialization that entered its body has ended by an error
C30_Witness ==
    /\ initialization_complete
    /\ ~is_initializing
    /\ agent = "None"
    /\ \E t \in Tasks : tasks[t] = "done"

\* ------------------------------------------------------- retriever claims
\* C25: over any interleaving of retrieve calls the build routine succeeds
\* at most once, at most one build is in progress at a time, a set
\* _retriever_instance is never replaced or cleared, and every call that
\* searched used the instance that is set.
C25_RetrieverBuiltOnceAndReused ==
    /\ [](builds.successes <= 1)
    /\ [](builds.running <= 1)
    /\ [][retriever_instance # 0 => retriever_instance' = retriever_instance]_vars
    /\ [](\A r \in RetrieveIds :
            retrieves[r].used # 0 => retrieves[r].used = retriever_instance)
    /\ [](\A r \in RetrieveIds :
            retrieves[r].pc = "ready" => retriever_instance # 0)

\* two calls have searched, with the retriever the one build made
C25_Witness ==
    /\ builds.attempts = 1
    /\ builds.successes = 1
    /\ \A r \in RetrieveIds :
          retrieves[r].pc = "done" /\ retrieves[r].used = retriever_instance

\* a call that finds a stored initialization error
FindsStoredError(r) ==
    /\ retrieves[r].pc = "locked"
    /\ retrieves'[r].pc # "locked"
    /\ retriever_initialization_error # <<>>

\* C26: after a failed initialization every later call returns the error
\* string that carries the stored error, the build routine does not run
\* again, no call ends other than by returning a string, and the instance
\* and the stored error are never both set.
C26_FailedInitIsSticky ==
    /\ [][\A r \in RetrieveIds :
            FindsStoredError(r) =>
                /\ retrieves'[r].pc = "done"
                /\ retrieves'[r].result =
                       StoredErrorMessage(retriever_initialization_error)
                /\ UNCHANGED <<builds, retriever_instance,
                               retriever_initialization_error>>]_vars
    /\ [](retriever_initialization_error # <<>> => builds.attempts = 1)
    /\ [](\A r \in RetrieveIds :
            retrieves[r].pc = "done" => retrieves[r].result # <<>>)
    /\ [](~(retriever_instance # 0 /\ retriever_initialization_error # <<>>))

\* the build failed once, and a later call got the stored error
C26_Witness ==
    /\ builds.attempts = 1
    /\ builds.successes = 0
    /\ builds.running = 0
    /\ \E r \in RetrieveIds :
          /\ retrieves[r].pc = "done"
          /\ retrieves[r].result = StoredErrorMessage(retriever_initialization_error)

\* ---------------------------------------------------- client cache claims
\* a call of get_api_clients for the context ends in this step
CallEnds(c) == kube_loads'[c].calls = kube_loads[c].calls + 1

\* C27: a cached context stays cached with the same client set, kubeconfig
\* is loaded only by a call whose context is not cached, a call whose load
\* fails leaves the cache as it was, a call that returns hands out the
\* cached client set, and no context is loaded with success twice.
C27_CacheIsNeverEvicted ==
    /\ [][\A c \in ContextNames :
            /\ client_cache[c] # 0 => client_cache'[c] = client_cache[c]
            /\ kube_loads'[c].attempts # kube_loads[c].attempts =>
                   client_cache[c] = 0
            /\ (CallEnds(c) /\ kube_loads'[c].raised) => UNCHANGED client_cache
            /\ (CallEnds(c) /\ ~kube_loads'[c].raised) =>
                   /\ kube_loads'[c].returned = client_cache'[c]
                   /\ client_cache'[c] # 0]_vars
    /\ [](\A c \in ContextNames : kube_loads[c].successes <= 1)

\* a context was loaded after a load that failed, and a later call was
\* served from the cache
C27_Witness ==
    \E c \in ContextNames :
        /\ kube_loads[c].attempts = 2
        /\ kube_loads[c].successes = 1
        /\ kube_loads[c].calls = 3
        /\ kube_loads[c].returned = client_cache[c]
        /\ client_cache[c] # 0

\* ------------------------------------------------------- decorator claims
\* what the caller gave for the k-th parameter, by position or by keyword
Given(k) ==
    IF Len(injection.args) >= k THEN injection.args[k]
    ELSE IF k = 1 THEN injection.kwargs.context_name
    ELSE injection.kwargs.namespace

\* C28: a call of a decorated function with context_name and namespace
\* parameters reaches the function; context_name is the active context
\* when None or not given, namespace is the default namespace of the
\* effective context when None or not given, and a value given by keyword
\* or by position arrives unchanged.
C28_DefaultsInjectedExplicitKept ==
    injection.pc = "returned" =>
        /\ injection.received.raised = ""
        /\ injection.received.context_name =
              IF Given(1) \in {"absent", "None"} THEN injection.active ELSE Given(1)
        /\ injection.received.namespace =
              IF Given(2) \in {"absent", "None"}
              THEN get_default_namespace(injection.received.context_name)
              ELSE Given(2)

\* ---------------------------------------------------------- signal claims
\* C24: a SIGINT delivered in any state from the installation of the
\* handler on ends the process with exit code 0, and the process stays
\* ended.
C24_SigintExitsWithZero ==
    /\ [](process.signalled => process.pc = "exited" /\ process.exit_code = 0)
    /\ [][process.pc = "exited" => process' = process]_vars

\* a SIGINT ended the process while a turn was streaming
C24_Witness ==
    /\ process.signalled
    /\ process.exit_code = 0
    /\ calls[1].pc = "stream"
    /\ calls[1].chunks # <<>>

=============================================================================
